---- MODULE Spec2Model ----
(***************************************************************************)
(* Model of openaki/cryptopals-rs: the byte container (raw_bytes.rs), the  *)
(* XOR breakers and the ECB detector (cipher.rs) and the GF(2^8)           *)
(* arithmetic (aes.rs).  Every function of the crate is pure, so each      *)
(* specification draws the arguments of a call in its initial state and    *)
(* an action performs the call and records what it returns.                *)
(*                                                                         *)
(* A Rust char is modelled by its code point, a String by a sequence of    *)
(* code points, a Vec<u8> by a sequence over 0..255.                       *)
(***************************************************************************)
EXTENDS Integers, Sequences, FiniteSets, TLC

VARIABLES
    overflow_checks,                        \* the build traps integer overflow (debug profile)
    b64_pc, b64_bytes, b64_str, b64_ret,    \* RawBytes::to_base64 / RawBytes::from_base64
    hex_pc, hex_str, hex_ret,               \* RawBytes::from_hex
    xor_pc, xor_lhs, xor_rhs, xor_ret,      \* RawBytes ^ RawBytes
    eng_pc, eng_rb, eng_ret,                \* score_for_english / single_char_xor_decrypt_impl
    ecb_pc, ecb_rbs, ecb_ret,               \* aes_128_ecb_detect
    ks_pc, ks_rb, ks_ret,                   \* repeating_key_find_best_keysize
    gf_pc, gf_a, gf_b, gf_ret,              \* AesByte * AesByte
    gw_pc, gw_w1, gw_w2, gw_ret,            \* AesWord * AesWord
    ham_pc, ham_lhs, ham_rhs, ham_ret,      \* RawBytes::hamming_distance
    rk_pc, rk_rb, rk_key, rk_ret            \* repeating_key_xor

b64_vars == <<b64_pc, b64_bytes, b64_str, b64_ret>>
hex_vars == <<hex_pc, hex_str, hex_ret>>
xor_vars == <<xor_pc, xor_lhs, xor_rhs, xor_ret>>
eng_vars == <<eng_pc, eng_rb, eng_ret>>
ecb_vars == <<ecb_pc, ecb_rbs, ecb_ret>>
ks_vars == <<ks_pc, ks_rb, ks_ret>>
gf_vars == <<gf_pc, gf_a, gf_b, gf_ret>>
gw_vars == <<gw_pc, gw_w1, gw_w2, gw_ret>>
ham_vars == <<ham_pc, ham_lhs, ham_rhs, ham_ret>>
rk_vars == <<rk_pc, rk_rb, rk_key, rk_ret>>

vars ==
    <<overflow_checks, b64_vars, hex_vars, xor_vars, eng_vars, ecb_vars, ks_vars,
      gf_vars, gw_vars, ham_vars, rk_vars>>

Byte == 0..255

\* The sequences over S of length at most n.
BoundedSeq(S, n) == UNION {[1..k -> S] : k \in 0..n}

\* What a call gives back: a value, or the thread panics.
Ok(v) == [kind |-> "ok", val |-> v]
Panic == [kind |-> "panic", val |-> <<>>]
\* An anyhow::Error handed back to the caller.
Err(msg) == [kind |-> "err", val |-> msg]

\* No call is in flight on a component.
B64Idle == b64_pc = "idle" /\ b64_bytes = <<>> /\ b64_str = <<>> /\ b64_ret = Ok(<<>>)
HexIdle == hex_pc = "idle" /\ hex_str = <<>> /\ hex_ret = Ok(<<>>)
XorIdle == xor_pc = "idle" /\ xor_lhs = <<>> /\ xor_rhs = <<>> /\ xor_ret = Ok(<<>>)
EngIdle == eng_pc = "idle" /\ eng_rb = <<>> /\ eng_ret = 0
EcbIdle == ecb_pc = "idle" /\ ecb_rbs = <<>> /\ ecb_ret = <<>>
KsIdle == ks_pc = "idle" /\ ks_rb = <<>> /\ ks_ret = Ok(<<>>)
GFIdle == gf_pc = "idle" /\ gf_a = 0 /\ gf_b = 0 /\ gf_ret = [ans |-> 0, doublings |-> 0]
GWIdle ==
    gw_pc = "idle" /\ gw_w1 = <<0, 0, 0, 0>> /\ gw_w2 = <<0, 0, 0, 0>> /\ gw_ret = <<0, 0, 0, 0>>
HamIdle == ham_pc = "idle" /\ ham_lhs = <<>> /\ ham_rhs = <<>> /\ ham_ret = Ok(0)
RkIdle == rk_pc = "idle" /\ rk_rb = <<>> /\ rk_key = <<>> /\ rk_ret = <<>>

(***************************************************************************)
(* Integer bit operations of the u8 / usize arithmetic.                    *)
(***************************************************************************)
RECURSIVE BitXor(_, _)
BitXor(a, b) ==
    IF a = 0 THEN b
    ELSE IF b = 0 THEN a
    ELSE (((a % 2) + (b % 2)) % 2) + 2 * BitXor(a \div 2, b \div 2)

RECURSIVE Pow2(_)
Pow2(n) == IF n = 0 THEN 1 ELSE 2 * Pow2(n - 1)

\* (byte >> x) & 0x1
Bit(byte, x) == (byte \div Pow2(x)) % 2

(***************************************************************************)
(* raw_bytes.rs: RawBytes                                                  *)
(***************************************************************************)
Min(a, b) == IF a < b THEN a ELSE b

\* Itertools::chunks(n): consecutive chunks of n items, the last one shorter
\* when the length is no multiple of n.
Chunks(seq, n) ==
    [k \in 1..((Len(seq) + n - 1) \div n) |->
        SubSeq(seq, (k - 1) * n + 1, Min(k * n, Len(seq)))]

\* flat_map(byte_to_bits): `width` bits of every item, most significant first.
FlatBits(items, width) ==
    [k \in 1..(width * Len(items)) |->
        Bit(items[((k - 1) \div width) + 1], width - 1 - ((k - 1) % width))]

\* ans += x * multiplier; multiplier /= 2, over the bits of one chunk.
RECURSIVE ChunkValue(_, _)
ChunkValue(c, multiplier) ==
    IF c = <<>> THEN 0
    ELSE Head(c) * multiplier + ChunkValue(Tail(c), multiplier \div 2)

\* from_hex's to_num on a char, with whether the u8 arithmetic overflowed.
to_num(a) ==
    IF a >= 48 /\ a <= 57 THEN [val |-> a - 48, overflow |-> FALSE]
    ELSE IF a >= 97 /\ a <= 122 THEN [val |-> 10 + a - 97, overflow |-> FALSE]
    ELSE LET sum == 10 + (a % 256)                  \* 10 + a as u8
         IN  [val      |-> (sum - 65) % 256,
              overflow |-> sum > 255 \/ (sum % 256) < 65]

\* 16 * to_num(a) + to_num(b)
HexPair(a, b) ==
    LET hi   == to_num(a)
        lo   == to_num(b)
        prod == 16 * hi.val
        sum  == (prod % 256) + lo.val
    IN  [val      |-> sum % 256,
         overflow |-> hi.overflow \/ lo.overflow \/ prod > 255 \/ sum > 255]

\* zip(chars().step_by(2), chars().skip(1).step_by(2)): a trailing odd char has
\* no partner and is left out.  An overflow panics where the build checks for
\* it and wraps where it does not.
from_hex(str, checks) ==
    LET pairs == [k \in 1..(Len(str) \div 2) |-> HexPair(str[2 * k - 1], str[2 * k])]
    IN  IF checks /\ \E k \in DOMAIN pairs : pairs[k].overflow
        THEN Panic
        ELSE Ok([k \in DOMAIN pairs |-> pairs[k].val])

\* A decoder that forgets that each '=' stands for two bits of padding.
DecodedBits_nopad(chars, num_equals) ==
    [val |-> chars * 6, overflow |-> FALSE]

\* bits = (chars - num_equals) * 6 - num_equals * 2 on usize: `chars` is the
\* count left after the first subtraction.
DecodedBits(chars, num_equals) ==
    [val |-> chars * 6 - num_equals * 2, overflow |-> chars * 6 < num_equals * 2]

\* str.chars().rev().take_while(|x| *x == '=').count()
RECURSIVE TrailingEquals(_)
TrailingEquals(str) ==
    IF str = <<>> \/ str[Len(str)] # 61 THEN 0
    ELSE 1 + TrailingEquals(SubSeq(str, 1, Len(str) - 1))

\* The value of a base64 char, 65 for every char outside the alphabet.
Base64Value(c) ==
    IF c >= 65 /\ c <= 90 THEN c - 65
    ELSE IF c >= 97 /\ c <= 122 THEN c - 97 + 26
    ELSE IF c >= 48 /\ c <= 57 THEN c - 48 + 52
    ELSE IF c = 43 THEN 62
    ELSE IF c = 47 THEN 63
    ELSE 65

\* A wrapped usize difference is at least 2^64 - 2 * len, more than the
\* 6 * len bits the string can hold: take(bits) then takes them all.
from_base64(str, checks) ==
    LET num_equals == TrailingEquals(str)
        bits       == DecodedBits(Len(str) - num_equals, num_equals)
        symbols    == SelectSeq([k \in DOMAIN str |-> Base64Value(str[k])],
                                LAMBDA c : c < 65)
        all        == FlatBits(symbols, 6)
        taken      == IF bits.overflow THEN all
                      ELSE SubSeq(all, 1, Min(bits.val, Len(all)))
        groups     == Chunks(taken, 8)
    IN  IF checks /\ bits.overflow
        THEN Panic
        ELSE Ok([k \in DOMAIN groups |-> ChunkValue(groups[k], 128)])

Base64Char(ans) ==
    IF ans < 26 THEN ans + 65
    ELSE IF ans < 52 THEN ans - 26 + 97
    ELSE IF ans < 62 THEN ans - 52 + 48
    ELSE IF ans < 63 THEN 43
    ELSE 47

to_base64(bytes) ==
    LET rem         == Len(bytes) % 3
        padding_len == IF rem > 0 THEN 3 - rem ELSE 0
        groups      == Chunks(FlatBits(bytes, 8), 6)
    IN  [k \in DOMAIN groups |-> Base64Char(ChunkValue(groups[k], 32))]
            \o [k \in 1..padding_len |-> 61]

\* impl BitXor: zip stops at the end of the shorter operand.
RawBytesBitXor(self, rhs) ==
    [k \in 1..Min(Len(self), Len(rhs)) |-> BitXor(self[k], rhs[k])]

\* hamming_distance_byte: the number of 1 bits of l ^ h.
RECURSIVE CountBits(_, _)
CountBits(x, i) == IF i = 8 THEN 0 ELSE Bit(x, i) + CountBits(x, i + 1)

\* A byte distance that leaves out the lowest bit.
hamming_distance_byte_7bits(l, h) == CountBits(BitXor(l, h), 1)

hamming_distance_byte(l, h) == CountBits(BitXor(l, h), 0)

\* .map(|(l, h)| Self::hamming_distance_byte(l, h)).sum() over the zipped bytes.
RECURSIVE SumByteDistances(_, _, _)
SumByteDistances(lhs, rhs, k) ==
    IF k > Min(Len(lhs), Len(rhs)) THEN 0
    ELSE hamming_distance_byte(lhs[k], rhs[k]) + SumByteDistances(lhs, rhs, k + 1)

hamming_distance(self, rhs) ==
    IF Len(self) # Len(rhs)
    THEN Err("lhs and rhs need to be of same len")
    ELSE Ok(SumByteDistances(self, rhs, 1))

(***************************************************************************)
(* cipher.rs                                                               *)
(***************************************************************************)
single_key_xor(rb, byte) == [k \in DOMAIN rb |-> BitXor(rb[k], byte)]

\* key.bytes.iter().cycle() of an empty key yields nothing, and zip stops at
\* the end of the shorter side.
repeating_key_xor(rb, key) ==
    IF key = <<>> THEN <<>>
    ELSE [k \in DOMAIN rb |-> BitXor(rb[k], key[((k - 1) % Len(key)) + 1])]

all_xors(rb) == [k \in 1..256 |-> [key |-> k - 1, rb |-> single_key_xor(rb, k - 1)]]

\* char::is_ascii_whitespace: space, tab, line feed, form feed, carriage return.
IsAsciiWhitespace(ch) == ch \in {32, 9, 10, 12, 13}

\* char::is_numeric on a char made from a u8: the ASCII digits and the
\* Latin-1 chars of the Unicode categories Nd, Nl, No (superscript 2, 3, 1
\* and the fractions 1/4, 1/2, 3/4).
IsNumeric(ch) == ch \in (48..57) \cup {178, 179, 185, 188, 189, 190}

\* What one byte adds to the score: the first if chain, then the second.
ByteScore(ch) ==
    (IF ch = 101 THEN 10
     ELSE IF ch = 116 THEN 9
     ELSE IF ch = 111 THEN 8
     ELSE IF ch = 105 THEN 7
     ELSE IF ch = 110 THEN 6
     ELSE 0)
    +
    (IF IsAsciiWhitespace(ch) THEN 5
     ELSE IF ch >= 97 /\ ch <= 122 THEN 4
     ELSE IF ch >= 65 /\ ch <= 90 THEN 2
     ELSE IF IsNumeric(ch) THEN 1
     ELSE -2)

RECURSIVE score_for_english(_)
score_for_english(rb) ==
    IF rb = <<>> THEN 0
    ELSE ByteScore(Head(rb)) + score_for_english(Tail(rb))

\* slice::sort_by_key: a stable sort, ascending.  keys[i] is the key of item
\* i; the result lists the indices in sorted order, equal keys in their
\* original order.
RECURSIVE SortedIndices(_, _)
SortedIndices(keys, left) ==
    IF left = {} THEN <<>>
    ELSE LET m == CHOOSE x \in left : \A y \in left : x <= y
         IN  SelectSeq([i \in DOMAIN keys |-> i], LAMBDA i : keys[i] = m)
                 \o SortedIndices(keys, left \ {m})

SortByKey(items, keys) ==
    LET order == SortedIndices(keys, {keys[i] : i \in DOMAIN keys})
    IN  [k \in DOMAIN items |-> items[order[k]]]

\* A breaker that takes the first candidate of the sorted list.
single_char_xor_decrypt_impl_first(rb) ==
    LET xors   == all_xors(rb)
        sorted == SortByKey(xors, [k \in DOMAIN xors |-> score_for_english(xors[k].rb)])
    IN  sorted[1]

single_char_xor_decrypt_impl(rb) ==
    LET xors   == all_xors(rb)
        sorted == SortByKey(xors, [k \in DOMAIN xors |-> score_for_english(xors[k].rb)])
    IN  sorted[Len(sorted)]

block_size == 16

\* The closure similar_score of aes_128_ecb_detect: the loop inserts block i
\* into the HashSet different_blocks.
RECURSIVE DifferentBlocks(_, _, _)
DifferentBlocks(rb, i, total_blocks) ==
    IF i = total_blocks THEN {}
    ELSE {SubSeq(rb, block_size * i + 1, block_size * i + block_size)}
            \cup DifferentBlocks(rb, i + 1, total_blocks)

similar_score(rb) ==
    LET total_blocks == Len(rb) \div block_size
    IN  total_blocks - Cardinality(DifferentBlocks(rb, 0, total_blocks))

Reverse(seq) == [k \in DOMAIN seq |-> seq[Len(seq) + 1 - k]]

\* A detector that forgets to reverse the sorted list.
aes_128_ecb_detect_noreverse(rbs) ==
    LET ans == [k \in DOMAIN rbs |->
                   [rb |-> rbs[k], id |-> k - 1, score |-> similar_score(rbs[k])]]
    IN  SortByKey(ans, [k \in DOMAIN ans |-> ans[k].score])

aes_128_ecb_detect(rbs) ==
    LET ans == [k \in DOMAIN rbs |->
                   [rb |-> rbs[k], id |-> k - 1, score |-> similar_score(rbs[k])]]
    IN  Reverse(SortByKey(ans, [k \in DOMAIN ans |-> ans[k].score]))

\* The six byte distances of one position of the four chunks.
PairDistances(c1, c2, c3, c4) ==
    hamming_distance_byte(c1, c2) + hamming_distance_byte(c1, c3)
        + hamming_distance_byte(c1, c4) + hamming_distance_byte(c2, c3)
        + hamming_distance_byte(c2, c4) + hamming_distance_byte(c3, c4)

\* multizip((b1, b2, b3, b4)) stops at the end of the shortest chunk.
RECURSIVE ChunkDistance(_, _, _)
ChunkDistance(chunks, pos, n) ==
    IF pos > n THEN 0
    ELSE PairDistances(chunks[1][pos], chunks[2][pos], chunks[3][pos], chunks[4][pos])
            + ChunkDistance(chunks, pos + 1, n)

\* a.1.partial_cmp(&b.1) on two estimates.  The f64 hamming_dist / i is kept
\* as the exact fraction num / den (den = 6 * i), taking the rounding of the
\* f64 sums as exact.
EstimateLess(a, b) == a.num * b.den < b.num * a.den

\* slice::sort_by: stable; x goes behind every item that is not greater.
RECURSIVE InsertEstimate(_, _)
InsertEstimate(sorted, x) ==
    IF sorted = <<>> THEN <<x>>
    ELSE IF EstimateLess(x, Head(sorted)) THEN <<x>> \o sorted
    ELSE <<Head(sorted)>> \o InsertEstimate(Tail(sorted), x)

RECURSIVE SortEstimates(_)
SortEstimates(ans) ==
    IF ans = <<>> THEN <<>>
    ELSE InsertEstimate(SortEstimates(SubSeq(ans, 1, Len(ans) - 1)), ans[Len(ans)])

KeysizeFrom == 2
KeysizeTo == 40

\* The for loop of repeating_key_find_best_keysize from key size i on: an
\* unwrap of a chunk that does not exist panics.
RECURSIVE KeysizeLoop(_, _, _)
KeysizeLoop(rb, i, ans) ==
    IF i >= KeysizeTo THEN Ok(SortEstimates(ans))
    ELSE LET chunks == Chunks(rb, i)
         IN  IF Len(chunks) < 4 THEN Panic
             ELSE LET n    == Min(Min(Len(chunks[1]), Len(chunks[2])),
                                  Min(Len(chunks[3]), Len(chunks[4])))
                      dist == ChunkDistance(chunks, 1, n)
                  IN  KeysizeLoop(rb, i + 1,
                                  Append(ans, [size |-> i, num |-> dist, den |-> 6 * i]))

repeating_key_find_best_keysize(rb) == KeysizeLoop(rb, KeysizeFrom, <<>>)

(***************************************************************************)
(* aes.rs: AesByte                                                         *)
(***************************************************************************)
\* A doubling that forgets the reduction by 0x1b.
xtime_noreduce(n) == (n * 2) % 256

xtime(n) ==
    LET overflow == IF n >= 128 THEN 128 ELSE 0     \* n & 0x80
        ans      == (n * 2) % 256                   \* n << 1 on u8
    IN  IF overflow # 0 THEN BitXor(ans, 27) ELSE ans

AesByteAdd(self, rhs) == BitXor(self, rhs)

\* The while loop of Mul for AesByte.  doublings counts the calls of xtime;
\* it is not a variable of the code.
RECURSIVE MulLoop(_, _, _, _)
MulLoop(m, ans, multiplier, doublings) ==
    IF m > 0
    THEN LET multiplier2 == xtime(multiplier)
             ans2        == IF m % 2 = 1 THEN BitXor(ans, multiplier2) ELSE ans
         IN  MulLoop(m \div 2, ans2, multiplier2, doublings + 1)
    ELSE [ans |-> ans, doublings |-> doublings]

AesByteMulRun(self, rhs) ==
    LET ans0 == IF rhs % 2 = 1 THEN BitXor(0, self) ELSE 0
    IN  MulLoop(rhs \div 2, ans0, self, 0)

AesByteMul(self, rhs) == AesByteMulRun(self, rhs).ans

(***************************************************************************)
(* aes.rs: AesWord, a 4-tuple of AesByte                                   *)
(***************************************************************************)
\* Rotations that shift the wrong way round.
get_mutiplier_left(n) ==
    << <<n[1], n[2], n[3], n[4]>>,
       <<n[4], n[1], n[2], n[3]>>,
       <<n[3], n[4], n[1], n[2]>>,
       <<n[2], n[3], n[4], n[1]>> >>

get_mutiplier(n) ==
    LET a0 == n[1]
        a1 == n[2]
        a2 == n[3]
        a3 == n[4]
    IN  << <<a0, a3, a2, a1>>,
           <<a1, a0, a3, a2>>,
           <<a2, a1, a0, a3>>,
           <<a3, a2, a1, a0>> >>

dot(w1, w2) ==
    AesByteAdd(AesByteAdd(AesByteAdd(AesByteMul(w1[1], w2[1]),
                                     AesByteMul(w1[2], w2[2])),
                          AesByteMul(w1[3], w2[3])),
               AesByteMul(w1[4], w2[4]))

AesWordMul(self, rhs) ==
    LET m == get_mutiplier(self)
    IN  <<dot(m[1], rhs), dot(m[2], rhs), dot(m[3], rhs), dot(m[4], rhs)>>

(***************************************************************************)
(* SpecB64RoundTrip: a buffer is encoded and the text decoded again.       *)
(* SpecB64Decode: a text is decoded.                                       *)
(***************************************************************************)
MaxB64Len == 4
MaxB64Str == 5
B64Bytes == {0, 77, 97, 128, 251, 255}
B64Chars == {84, 81, 47, 61, 10}             \* 'T' 'Q' '/' '=' '\n'

B64RoundTripInit ==
    /\ overflow_checks \in BOOLEAN
    /\ b64_pc = "encode"
    /\ b64_bytes \in BoundedSeq(B64Bytes, MaxB64Len)
    /\ b64_str = <<>>
    /\ b64_ret = Ok(<<>>)
    /\ HexIdle /\ XorIdle /\ EngIdle /\ EcbIdle /\ KsIdle /\ GFIdle /\ GWIdle
    /\ HamIdle /\ RkIdle

B64DecodeInit ==
    /\ overflow_checks \in BOOLEAN
    /\ b64_pc = "decode"
    /\ b64_bytes = <<>>
    /\ b64_str \in BoundedSeq(B64Chars, MaxB64Str)
    /\ b64_ret = Ok(<<>>)
    /\ HexIdle /\ XorIdle /\ EngIdle /\ EcbIdle /\ KsIdle /\ GFIdle /\ GWIdle
    /\ HamIdle /\ RkIdle

ToBase64 ==
    /\ b64_pc = "encode"
    /\ b64_str' = to_base64(b64_bytes)
    /\ b64_pc' = "decode"
    /\ UNCHANGED <<overflow_checks, b64_bytes, b64_ret>>
    /\ UNCHANGED <<hex_vars, xor_vars, eng_vars, ecb_vars, ks_vars, gf_vars, gw_vars>>
    /\ UNCHANGED <<ham_vars, rk_vars>>

FromBase64 ==
    /\ b64_pc = "decode"
    /\ b64_ret' = from_base64(b64_str, overflow_checks)
    /\ b64_pc' = "done"
    /\ UNCHANGED <<overflow_checks, b64_bytes, b64_str>>
    /\ UNCHANGED <<hex_vars, xor_vars, eng_vars, ecb_vars, ks_vars, gf_vars, gw_vars>>
    /\ UNCHANGED <<ham_vars, rk_vars>>

B64RoundTripNext == ToBase64 \/ FromBase64

B64DecodeNext == FromBase64

SpecB64RoundTrip == B64RoundTripInit /\ [][B64RoundTripNext]_vars

SpecB64Decode == B64DecodeInit /\ [][B64DecodeNext]_vars

(***************************************************************************)
(* SpecHex: a text is decoded as hex.                                      *)
(***************************************************************************)
MaxHexLen == 3
HexChars == {48, 57, 97, 102, 70, 103, 122, 32}    \* '0' '9' 'a' 'f' 'F' 'g' 'z' ' '

HexInit ==
    /\ overflow_checks \in BOOLEAN
    /\ hex_pc = "call"
    /\ hex_str \in BoundedSeq(HexChars, MaxHexLen)
    /\ hex_ret = Ok(<<>>)
    /\ B64Idle /\ XorIdle /\ EngIdle /\ EcbIdle /\ KsIdle /\ GFIdle /\ GWIdle
    /\ HamIdle /\ RkIdle

FromHex ==
    /\ hex_pc = "call"
    /\ hex_ret' = from_hex(hex_str, overflow_checks)
    /\ hex_pc' = "done"
    /\ UNCHANGED <<overflow_checks, hex_str>>
    /\ UNCHANGED <<b64_vars, xor_vars, eng_vars, ecb_vars, ks_vars, gf_vars, gw_vars>>
    /\ UNCHANGED <<ham_vars, rk_vars>>

HexNext == FromHex

SpecHex == HexInit /\ [][HexNext]_vars

(***************************************************************************)
(* SpecXor: two buffers are XORed.                                         *)
(***************************************************************************)
MaxXorLen == 2
XorBytes == {0, 1, 170, 255}

XorInit ==
    /\ overflow_checks = FALSE
    /\ xor_pc = "call"
    /\ xor_lhs \in BoundedSeq(XorBytes, MaxXorLen)
    /\ xor_rhs \in BoundedSeq(XorBytes, MaxXorLen)
    /\ xor_ret = Ok(<<>>)
    /\ B64Idle /\ HexIdle /\ EngIdle /\ EcbIdle /\ KsIdle /\ GFIdle /\ GWIdle
    /\ HamIdle /\ RkIdle

Xor ==
    /\ xor_pc = "call"
    /\ xor_ret' = Ok(RawBytesBitXor(xor_lhs, xor_rhs))
    /\ xor_pc' = "done"
    /\ UNCHANGED <<overflow_checks, xor_lhs, xor_rhs>>
    /\ UNCHANGED <<b64_vars, hex_vars, eng_vars, ecb_vars, ks_vars, gf_vars, gw_vars>>
    /\ UNCHANGED <<ham_vars, rk_vars>>

XorNext == Xor

SpecXor == XorInit /\ [][XorNext]_vars

(***************************************************************************)
(* SpecScore: a buffer is scored.  SpecSingleXor: the single-byte key of a *)
(* buffer is searched.                                                     *)
(***************************************************************************)
MaxEngLen == 2
EngBytes == {101, 116, 32, 97, 69, 48, 178, 0}     \* 'e' 't' ' ' 'a' 'E' '0' U+00B2 NUL

EngInit ==
    /\ overflow_checks = FALSE
    /\ eng_pc = "call"
    /\ eng_rb \in BoundedSeq(EngBytes, MaxEngLen) \cup {<<b>> : b \in Byte}
    /\ eng_ret = 0
    /\ B64Idle /\ HexIdle /\ XorIdle /\ EcbIdle /\ KsIdle /\ GFIdle /\ GWIdle
    /\ HamIdle /\ RkIdle

ScoreForEnglish ==
    /\ eng_pc = "call"
    /\ eng_ret' = score_for_english(eng_rb)
    /\ eng_pc' = "done"
    /\ UNCHANGED <<overflow_checks, eng_rb>>
    /\ UNCHANGED <<b64_vars, hex_vars, xor_vars, ecb_vars, ks_vars, gf_vars, gw_vars>>
    /\ UNCHANGED <<ham_vars, rk_vars>>

SingleCharXorDecrypt ==
    /\ eng_pc = "call"
    /\ eng_ret' = single_char_xor_decrypt_impl(eng_rb)
    /\ eng_pc' = "done"
    /\ UNCHANGED <<overflow_checks, eng_rb>>
    /\ UNCHANGED <<b64_vars, hex_vars, xor_vars, ecb_vars, ks_vars, gf_vars, gw_vars>>
    /\ UNCHANGED <<ham_vars, rk_vars>>

ScoreNext == ScoreForEnglish

SingleXorNext == SingleCharXorDecrypt

SpecScore == EngInit /\ [][ScoreNext]_vars

SpecSingleXor == EngInit /\ [][SingleXorNext]_vars

(***************************************************************************)
(* SpecDetect: a list of buffers is ranked by repeated blocks.             *)
(***************************************************************************)
MaxBlocks == 2
MaxBufs == 2

\* Two blocks that differ in their last byte only, and a partial block.
BlockA == [k \in 1..block_size |-> 0]
BlockB == [k \in 1..block_size |-> IF k = block_size THEN 1 ELSE 0]
PartialBlock == <<0, 0, 0>>

RECURSIVE Concat(_)
Concat(seqs) == IF seqs = <<>> THEN <<>> ELSE Head(seqs) \o Concat(Tail(seqs))

EcbBuffers ==
    {Concat(bs) \o t : bs \in BoundedSeq({BlockA, BlockB}, MaxBlocks),
                       t \in {<<>>, PartialBlock}}

DetectInit ==
    /\ overflow_checks = FALSE
    /\ ecb_pc = "call"
    /\ ecb_rbs \in BoundedSeq(EcbBuffers, MaxBufs)
    /\ ecb_ret = <<>>
    /\ B64Idle /\ HexIdle /\ XorIdle /\ EngIdle /\ KsIdle /\ GFIdle /\ GWIdle
    /\ HamIdle /\ RkIdle

Aes128EcbDetect ==
    /\ ecb_pc = "call"
    /\ ecb_ret' = aes_128_ecb_detect(ecb_rbs)
    /\ ecb_pc' = "done"
    /\ UNCHANGED <<overflow_checks, ecb_rbs>>
    /\ UNCHANGED <<b64_vars, hex_vars, xor_vars, eng_vars, ks_vars, gf_vars, gw_vars>>
    /\ UNCHANGED <<ham_vars, rk_vars>>

DetectNext == Aes128EcbDetect

SpecDetect == DetectInit /\ [][DetectNext]_vars

(***************************************************************************)
(* SpecKeysize: the key sizes of a buffer are ranked.                      *)
(***************************************************************************)
MaxKsLen == 160
KsStrides == {0, 37}

KeysizeInit ==
    /\ overflow_checks = FALSE
    /\ ks_pc = "call"
    /\ ks_rb \in {[j \in 1..len |-> (j * m) % 256] : len \in 0..MaxKsLen, m \in KsStrides}
    /\ ks_ret = Ok(<<>>)
    /\ B64Idle /\ HexIdle /\ XorIdle /\ EngIdle /\ EcbIdle /\ GFIdle /\ GWIdle
    /\ HamIdle /\ RkIdle

FindBestKeysize ==
    /\ ks_pc = "call"
    /\ ks_ret' = repeating_key_find_best_keysize(ks_rb)
    /\ ks_pc' = "done"
    /\ UNCHANGED <<overflow_checks, ks_rb>>
    /\ UNCHANGED <<b64_vars, hex_vars, xor_vars, eng_vars, ecb_vars, gf_vars, gw_vars>>
    /\ UNCHANGED <<ham_vars, rk_vars>>

KeysizeNext == FindBestKeysize

SpecKeysize == KeysizeInit /\ [][KeysizeNext]_vars

(***************************************************************************)
(* SpecHamming: the Hamming distance of two buffers is taken.              *)
(***************************************************************************)
MaxHamLen == 2
HamBytes == {0, 1, 170, 255}
ThisIsATest == <<116, 104, 105, 115, 32, 105, 115, 32, 97, 32, 116, 101, 115, 116>>
WokkaWokka == <<119, 111, 107, 107, 97, 32, 119, 111, 107, 107, 97, 33, 33, 33>>

HammingInit ==
    /\ overflow_checks = FALSE
    /\ ham_pc = "call"
    /\ \E pair \in (BoundedSeq(HamBytes, MaxHamLen) \X BoundedSeq(HamBytes, MaxHamLen))
                        \cup {<<ThisIsATest, WokkaWokka>>, <<WokkaWokka, ThisIsATest>>} :
          /\ ham_lhs = pair[1]
          /\ ham_rhs = pair[2]
    /\ ham_ret = Ok(0)
    /\ B64Idle /\ HexIdle /\ XorIdle /\ EngIdle /\ EcbIdle /\ KsIdle /\ GFIdle /\ GWIdle
    /\ RkIdle

HammingDistance ==
    /\ ham_pc = "call"
    /\ ham_ret' = hamming_distance(ham_lhs, ham_rhs)
    /\ ham_pc' = "done"
    /\ UNCHANGED <<overflow_checks, ham_lhs, ham_rhs>>
    /\ UNCHANGED <<b64_vars, hex_vars, xor_vars, eng_vars, ecb_vars, ks_vars, gf_vars,
                   gw_vars, rk_vars>>

HammingNext == HammingDistance

SpecHamming == HammingInit /\ [][HammingNext]_vars

(***************************************************************************)
(* SpecRepeatingXor: a buffer is XORed with a repeating key.               *)
(***************************************************************************)
MaxRkLen == 3
MaxRkKey == 4
RkBytes == {0, 73, 255}

RepeatingXorInit ==
    /\ overflow_checks = FALSE
    /\ rk_pc = "call"
    /\ rk_rb \in BoundedSeq(RkBytes, MaxRkLen)
    /\ rk_key \in BoundedSeq(RkBytes, MaxRkKey)
    /\ rk_ret = <<>>
    /\ B64Idle /\ HexIdle /\ XorIdle /\ EngIdle /\ EcbIdle /\ KsIdle /\ GFIdle /\ GWIdle
    /\ HamIdle

RepeatingKeyXor ==
    /\ rk_pc = "call"
    /\ rk_ret' = repeating_key_xor(rk_rb, rk_key)
    /\ rk_pc' = "done"
    /\ UNCHANGED <<overflow_checks, rk_rb, rk_key>>
    /\ UNCHANGED <<b64_vars, hex_vars, xor_vars, eng_vars, ecb_vars, ks_vars, gf_vars,
                   gw_vars, ham_vars>>

RepeatingXorNext == RepeatingKeyXor

SpecRepeatingXor == RepeatingXorInit /\ [][RepeatingXorNext]_vars

(***************************************************************************)
(* SpecGFByte: one product of two bytes.  SpecGFWord: one product of two   *)
(* words.                                                                  *)
(***************************************************************************)
GFByteInit ==
    /\ overflow_checks = FALSE
    /\ gf_pc = "call"
    /\ gf_a \in Byte
    /\ gf_b \in Byte
    /\ gf_ret = [ans |-> 0, doublings |-> 0]
    /\ B64Idle /\ HexIdle /\ XorIdle /\ EngIdle /\ EcbIdle /\ KsIdle /\ GWIdle
    /\ HamIdle /\ RkIdle

MulAesByte ==
    /\ gf_pc = "call"
    /\ gf_ret' = AesByteMulRun(gf_a, gf_b)
    /\ gf_pc' = "done"
    /\ UNCHANGED <<overflow_checks, gf_a, gf_b>>
    /\ UNCHANGED <<b64_vars, hex_vars, xor_vars, eng_vars, ecb_vars, ks_vars, gw_vars>>
    /\ UNCHANGED <<ham_vars, rk_vars>>

GFByteNext == MulAesByte

SpecGFByte == GFByteInit /\ [][GFByteNext]_vars

\* Components of the left word, and the right words, of the word products.
WordLeftBytes == {1, 2, 3, 87}
WordsRight ==
    {<<b0, b1, b2, b3>> : b0 \in {0, 1}, b1 \in {0, 1}, b2 \in {0, 131}, b3 \in {0, 1}}
        \cup {<<14, 9, 13, 11>>}

GFWordInit ==
    /\ overflow_checks = FALSE
    /\ gw_pc = "call"
    /\ gw_w1 \in {<<a0, a1, a2, a3>> : a0 \in WordLeftBytes, a1 \in WordLeftBytes,
                                       a2 \in WordLeftBytes, a3 \in WordLeftBytes}
    /\ gw_w2 \in WordsRight
    /\ gw_ret = <<0, 0, 0, 0>>
    /\ B64Idle /\ HexIdle /\ XorIdle /\ EngIdle /\ EcbIdle /\ KsIdle /\ GFIdle
    /\ HamIdle /\ RkIdle

MulAesWord ==
    /\ gw_pc = "call"
    /\ gw_ret' = AesWordMul(gw_w1, gw_w2)
    /\ gw_pc' = "done"
    /\ UNCHANGED <<overflow_checks, gw_w1, gw_w2>>
    /\ UNCHANGED <<b64_vars, hex_vars, xor_vars, eng_vars, ecb_vars, ks_vars, gf_vars>>
    /\ UNCHANGED <<ham_vars, rk_vars>>

GFWordNext == MulAesWord

SpecGFWord == GFWordInit /\ [][GFWordNext]_vars

(***************************************************************************)
(* Reference: the carry-less product of two polynomials over GF(2) and its *)
(* remainder modulo x^8 + x^4 + x^3 + x + 1.                               *)
(***************************************************************************)
RECURSIVE ClMul(_, _)
ClMul(a, b) ==
    IF b = 0 THEN 0
    ELSE BitXor(IF b % 2 = 1 THEN a ELSE 0, 2 * ClMul(a, b \div 2))

RECURSIVE PolyMod(_, _)
PolyMod(p, bit) ==
    IF bit < 8 THEN p
    ELSE PolyMod(IF Bit(p, bit) = 1 THEN BitXor(p, 283 * Pow2(bit - 8)) ELSE p, bit - 1)

GFProduct(a, b) == PolyMod(ClMul(a, b), 14)

\* C6: for all bytes a, b the product computed by the doubling-and-accumulate
\* loop is the carry-less product of a and b reduced modulo 0x11b; 0x57*0x13 is
\* 0xfe, a*1 = a, a*0 = 0, a*b = b*a, and the loop doubles at most 8 times.
C6_MulIsPolynomialProduct ==
    gf_pc = "done" =>
        /\ gf_ret.ans = GFProduct(gf_a, gf_b)
        /\ gf_ret.ans \in Byte
        /\ gf_ret.doublings <= 8
        /\ gf_ret.ans = AesByteMul(gf_b, gf_a)
        /\ (gf_b = 1 => gf_ret.ans = gf_a)
        /\ (gf_b = 0 => gf_ret.ans = 0)
        /\ ((gf_a = 87 /\ gf_b = 19) => gf_ret.ans = 254)

C6_Witness ==
    gf_pc = "done" /\ gf_a = 87 /\ gf_b = 19 /\ gf_ret.ans = 254

\* The circulant product: component i is the XOR-sum over j of a[(i-j) mod 4] * b[j].
Circulant(A, B, i) ==
    LET t(j) == GFProduct(A[((i - j) % 4) + 1], B[j + 1])
    IN  BitXor(BitXor(BitXor(t(0), t(1)), t(2)), t(3))

\* C7: the word product A*B has the components dot((a0,a3,a2,a1),B),
\* dot((a1,a0,a3,a2),B), dot((a2,a1,a0,a3),B), dot((a3,a2,a1,a0),B);
\* (02,01,01,03)*(0e,09,0d,0b) = (01,00,00,00) and A*(0,0,0,1) = (a1,a2,a3,a0).
C7_WordMulIsCirculant ==
    gw_pc = "done" =>
        /\ gw_ret = <<Circulant(gw_w1, gw_w2, 0), Circulant(gw_w1, gw_w2, 1),
                      Circulant(gw_w1, gw_w2, 2), Circulant(gw_w1, gw_w2, 3)>>
        /\ ((gw_w1 = <<2, 1, 1, 3>> /\ gw_w2 = <<14, 9, 13, 11>>) => gw_ret = <<1, 0, 0, 0>>)
        /\ (gw_w2 = <<0, 0, 0, 1>> => gw_ret = <<gw_w1[2], gw_w1[3], gw_w1[4], gw_w1[1]>>)

C7_Witness ==
    /\ gw_pc = "done"
    /\ gw_w1 = <<2, 1, 1, 3>> /\ gw_w2 = <<14, 9, 13, 11>>
    /\ gw_ret = <<1, 0, 0, 0>>
\* C1: decoding the base64 text that to_base64 produced for a buffer gives
\* back exactly that buffer, for lengths congruent to 0, 1 and 2 modulo 3.
C1_Base64RoundTrip ==
    b64_pc = "done" => b64_ret = Ok(b64_bytes)

C1_Witness ==
    /\ b64_pc = "done"
    /\ b64_bytes = <<77>>
    /\ b64_str = <<84, 81, 61, 61>>
    /\ b64_ret = Ok(<<77>>)

IsHexDigit(c) == c \in (48..57) \cup (97..102) \cup (65..70)

\* C2: from_hex fails, and returns no buffer, whenever the text has odd
\* length or holds a char outside [0-9a-fA-F].
C2_FromHexRejectsMalformed ==
    (/\ hex_pc = "done"
     /\ \/ Len(hex_str) % 2 = 1
        \/ \E k \in DOMAIN hex_str : ~IsHexDigit(hex_str[k]))
        => hex_ret.kind # "ok"

\* C3: the XOR of two buffers of different lengths fails; of two buffers of
\* the same length it has that length and byte i is a[i] XOR b[i].
C3_XorRequiresEqualLengths ==
    xor_pc = "done" =>
        IF Len(xor_lhs) # Len(xor_rhs)
        THEN xor_ret.kind # "ok"
        ELSE /\ xor_ret.kind = "ok"
             /\ Len(xor_ret.val) = Len(xor_lhs)
             /\ \A i \in DOMAIN xor_lhs : xor_ret.val[i] = BitXor(xor_lhs[i], xor_rhs[i])

IsBase64Char(c) == c \in (65..90) \cup (97..122) \cup (48..57) \cup {43, 47}

\* s with every char removed that is neither of the alphabet nor part of the
\* '=' padding that ends the data.
StripNonAlphabet(str) ==
    LET last == IF \E k \in DOMAIN str : IsBase64Char(str[k])
                THEN CHOOSE k \in DOMAIN str :
                        /\ IsBase64Char(str[k])
                        /\ \A j \in DOMAIN str : IsBase64Char(str[j]) => j <= k
                ELSE 0
        keep == {k \in DOMAIN str : IsBase64Char(str[k]) \/ (str[k] = 61 /\ k > last)}
        F[k \in 0..Len(str)] ==
            IF k = 0 THEN <<>>
            ELSE IF k \in keep THEN Append(F[k - 1], str[k]) ELSE F[k - 1]
    IN  F[Len(str)]

\* C10: from_base64 ignores the chars outside the alphabet: decoding s gives
\* what decoding s without those chars gives.
C10_FromBase64IgnoresNonAlphabet ==
    b64_pc = "done" => b64_ret = from_base64(StripNonAlphabet(b64_str), overflow_checks)
\* The weight the scorer is said to give a byte: exactly one of the buckets.
ClaimedWeight(ch) ==
    IF ch = 101 THEN 10
    ELSE IF ch = 116 THEN 9
    ELSE IF ch = 111 THEN 8
    ELSE IF ch = 105 THEN 7
    ELSE IF ch = 110 THEN 6
    ELSE IF ch \in {32, 9, 10, 12, 13} THEN 5
    ELSE IF ch \in 97..122 THEN 4
    ELSE IF ch \in 65..90 THEN 2
    ELSE IF ch \in 48..57 THEN 1
    ELSE -2

RECURSIVE ClaimedScore(_)
ClaimedScore(rb) ==
    IF rb = <<>> THEN 0 ELSE ClaimedWeight(Head(rb)) + ClaimedScore(Tail(rb))

\* C4: the score of a buffer is the sum of exactly one weight per byte: 10,
\* 9, 8, 7, 6 for 'e', 't', 'o', 'i', 'n' without the lowercase bonus,
\* otherwise 5 for whitespace, 4 for lowercase, 2 for uppercase, 1 for a
\* digit '0'..'9' and -2 for every other byte.
C4_ScoreIsOneWeightPerByte ==
    eng_pc = "done" => eng_ret = ClaimedScore(eng_rb)

\* The whole 16-byte blocks of a buffer less the distinct ones among them.
DuplicateBlocks(rb) ==
    LET n == Len(rb) \div 16
    IN  n - Cardinality({SubSeq(rb, 16 * (i - 1) + 1, 16 * i) : i \in 1..n})

\* One entry per input buffer, each with the buffer, its index and its count
\* of duplicate blocks.
DetectEntries ==
    /\ Len(ecb_ret) = Len(ecb_rbs)
    /\ {ecb_ret[k].id : k \in DOMAIN ecb_ret} = {i - 1 : i \in DOMAIN ecb_rbs}
    /\ \A k \in DOMAIN ecb_ret :
          /\ ecb_ret[k].rb = ecb_rbs[ecb_ret[k].id + 1]
          /\ ecb_ret[k].score = DuplicateBlocks(ecb_ret[k].rb)

\* C5 as stated: one entry per input buffer with its count of duplicate
\* blocks, in descending order of the count, equal counts in input order.
C5_TiesInInputOrder ==
    ecb_pc = "done" =>
        /\ DetectEntries
        /\ \A i, j \in DOMAIN ecb_ret :
              i < j => \/ ecb_ret[i].score > ecb_ret[j].score
                       \/ /\ ecb_ret[i].score = ecb_ret[j].score
                          /\ ecb_ret[i].id < ecb_ret[j].id

\* C5, amended: one entry per input buffer with its count of duplicate
\* blocks, in descending order of the count, equal counts in the reverse of
\* the input order (the larger input index first).
C5_TiesInReverseInputOrder ==
    ecb_pc = "done" =>
        /\ DetectEntries
        /\ \A i, j \in DOMAIN ecb_ret :
              i < j => \/ ecb_ret[i].score > ecb_ret[j].score
                       \/ /\ ecb_ret[i].score = ecb_ret[j].score
                          /\ ecb_ret[i].id > ecb_ret[j].id

C5_Witness ==
    /\ ecb_pc = "done"
    /\ Len(ecb_ret) = 2
    /\ ecb_ret[1].score = 1 /\ ecb_ret[2].score = 1
    /\ ecb_ret[1].id = 1 /\ ecb_ret[2].id = 0
    /\ Len(ecb_ret[1].rb) % 16 # 0

\* C8: the breaker tries the 256 keys and returns a key with the buffer
\* XORed with it, of the highest score of all 256 candidates, and of the
\* keys that reach that score the largest.
C8_BestKeyLastWins ==
    eng_pc = "done" =>
        /\ eng_ret.key \in Byte
        /\ eng_ret.rb = [k \in DOMAIN eng_rb |-> BitXor(eng_rb[k], eng_ret.key)]
        /\ \A c \in Byte :
              LET sc == score_for_english([k \in DOMAIN eng_rb |-> BitXor(eng_rb[k], c)])
              IN  /\ sc <= score_for_english(eng_ret.rb)
                  /\ (c > eng_ret.key => sc < score_for_english(eng_ret.rb))

C8_Witness ==
    /\ eng_pc = "done"
    /\ eng_rb = <<101, 116>>
    /\ \E c \in Byte :
          /\ c < eng_ret.key
          /\ score_for_english(single_key_xor(eng_rb, c)) = score_for_english(eng_ret.rb)

\* C9: for a buffer shorter than 4 * 39 bytes the key size estimation fails
\* and returns no estimates.
C9_ShortBufferFails ==
    (ks_pc = "done" /\ Len(ks_rb) < 4 * 39) => ks_ret.kind # "ok"
\* The bit positions in which two buffers of the same length differ.
DifferingBits(a, b) ==
    {<<k, i>> \in (DOMAIN a) \X (0..7) : Bit(a[k], i) # Bit(b[k], i)}

\* C11: hamming_distance returns an error when the lengths differ; otherwise
\* the number of 1 bits of a[i] XOR b[i] summed over all i, so it is
\* symmetric, 0 for a buffer and itself, and 37 for "this is a test" and
\* "wokka wokka!!!".
C11_HammingDistance ==
    ham_pc = "done" =>
        IF Len(ham_lhs) # Len(ham_rhs)
        THEN ham_ret.kind = "err"
        ELSE /\ ham_ret = Ok(Cardinality(DifferingBits(ham_lhs, ham_rhs)))
             /\ ham_ret = hamming_distance(ham_rhs, ham_lhs)
             /\ (ham_lhs = ham_rhs => ham_ret.val = 0)
             /\ ((ham_lhs = ThisIsATest /\ ham_rhs = WokkaWokka) => ham_ret.val = 37)

C11_Witness ==
    /\ ham_pc = "done"
    /\ ham_lhs = ThisIsATest /\ ham_rhs = WokkaWokka
    /\ ham_ret = Ok(37)

\* C12: for every buffer and every key, the empty key included, the result
\* of repeating_key_xor has the length of the buffer, byte i is buffer[i] XOR
\* key[i mod len(key)] for a key that is not empty, and XORing the result
\* with the same key again gives back the buffer.
C12_RepeatingXorAnyKey ==
    rk_pc = "done" =>
        /\ Len(rk_ret) = Len(rk_rb)
        /\ (rk_key # <<>> =>
              \A i \in DOMAIN rk_rb :
                  rk_ret[i] = BitXor(rk_rb[i], rk_key[((i - 1) % Len(rk_key)) + 1]))
        /\ repeating_key_xor(rk_ret, rk_key) = rk_rb
====
